---- MODULE Spec2Model ----
(***************************************************************************)
(* A model of src/calculator.py: the Calculator session (run loop,         *)
(* process_command, process_expression, process_assignment), the           *)
(* infix-to-postfix transformer and the postfix evaluator.                 *)
(*                                                                         *)
(* Tokens are sequences of one-character strings, so that the character    *)
(* tests of the code (set(token).issubset(digits), ...) and int(token) are *)
(* computed and not assumed.  A line is modelled after                     *)
(* remove_extra_spaces(...).split(): the list of its tokens, which the     *)
(* transformer's for loop consumes one by one; the tokens of the line are  *)
(* chosen as the loop reaches them, and infix_expression holds the ones    *)
(* consumed so far.                                                        *)
(*                                                                         *)
(* Numbers: Python ints are exact; Python floats are modelled as exact     *)
(* rationals n/d (kind "float"), so float rounding is outside the model.   *)
(* A power with a non-integral exponent that has no rational value is the  *)
(* kind "irr", a complex result the kind "complex".                        *)
(***************************************************************************)
EXTENDS Integers, Sequences, FiniteSets, TLC

\* ---------------------------------------------------------------- bounds
\* Tokens of one line in the single-line specification SpecLine.
MaxTokens == 6
\* Lines of one session and tokens of one line in the session specification Spec.
MaxLines == 3
MaxSessionTokens == 3
\* Items of a postfix sequence in the evaluator specification SpecEval.
MaxPostfix == 3
\* Numerators and denominators stay within -MaxAbs..MaxAbs; a line whose
\* evaluation leaves this range is not completed.
MaxAbs == 20000

VARIABLES
    pc,                      \* "input": run() is at input(); "scan": inside the for loop of
                             \* transform_infix_to_postfix; "compute": the transformer has
                             \* returned; "crashed": an exception left run(); "exited"
    mode,                    \* "expression" | "assignment": the handler that called the transformer
    identifier,              \* process_assignment's left-hand side
    variables,               \* self._variables
    infix_expression,        \* the tokens consumed so far
    binary_operators_stack,
    unary_operators_stack,
    next_operator_is_binary,
    postfix_expression,
    output,                  \* what the last line did
    lines                    \* lines read so far

vars == <<pc, mode, identifier, variables, infix_expression, binary_operators_stack,
          unary_operators_stack, next_operator_is_binary, postfix_expression, output, lines>>

\* ------------------------------------------------------------ characters
digits == {"0", "1", "2", "3", "4", "5", "6", "7", "8", "9"}

ascii_letters ==
    {"a", "b", "c", "d", "e", "f", "g", "h", "i", "j", "k", "l", "m",
     "n", "o", "p", "q", "r", "s", "t", "u", "v", "w", "x", "y", "z",
     "A", "B", "C", "D", "E", "F", "G", "H", "I", "J", "K", "L", "M",
     "N", "O", "P", "Q", "R", "S", "T", "U", "V", "W", "X", "Y", "Z"}

\* set(token)
CharSet(token) == {token[i] : i \in 1..Len(token)}

DigitValue(c) == CHOOSE n \in 0..9 : <<"0", "1", "2", "3", "4", "5", "6", "7", "8", "9">>[n + 1] = c

RECURSIVE IntOf(_)
\* int(token) for a token made of digits
IntOf(token) ==
    IF token = <<>> THEN 0
    ELSE 10 * IntOf(SubSeq(token, 1, Len(token) - 1)) + DigitValue(token[Len(token)])

\* ------------------------------------------------------------ operator tables
precedence == (<<"-">> :> 1) @@ (<<"+">> :> 1) @@ (<<"/">> :> 2) @@ (<<"*">> :> 2) @@ (<<"^">> :> 3)

binary_operators == {<<"-">>, <<"+">>, <<"/">>, <<"*">>, <<"^">>}

unary_operators == {<<"-">>, <<"+">>}

LParen == <<"(">>
RParen == <<")">>

\* ------------------------------------------------------------ numbers
Abs(n) == IF n < 0 THEN -n ELSE n

RECURSIVE GCD(_, _)
GCD(a, b) == IF b = 0 THEN a ELSE GCD(b, a % b)

IntV(n) == [k |-> "int", n |-> n, d |-> 1]

\* the float n/d, in lowest terms with a positive denominator
FloatV(n, d) ==
    LET g == GCD(Abs(n), Abs(d))
        s == IF d < 0 THEN -1 ELSE 1
    IN [k |-> "float", n |-> s * (n \div g), d |-> s * (d \div g)]

Irr == [k |-> "irr", n |-> 0, d |-> 1]
Complex == [k |-> "complex", n |-> 0, d |-> 1]

IsRational(v) == v.k \in {"int", "float"}
IsZero(v) == IsRational(v) /\ v.n = 0
InRange(v) == Abs(v.n) <= MaxAbs /\ v.d <= MaxAbs

\* a rational n/d of the kind the operands give: int only when both are ints
\* (and the value is whole), float otherwise
Rat(a, b, n, d) ==
    IF a.k = "int" /\ b.k = "int" /\ d = 1 THEN IntV(n) ELSE FloatV(n, d)

Ok(v) == [err |-> IF InRange(v) THEN "" ELSE "range", v |-> IF InRange(v) THEN v ELSE IntV(0)]
Err(e) == [err |-> e, v |-> IntV(0)]

\* the kind of a result one of whose operands is not a tracked rational
Untracked(a, b) == IF a.k = "complex" \/ b.k = "complex" THEN Complex ELSE Irr

\* ---------------------------------------------------------------- arithmetic
RECURSIVE PowAcc(_, _, _)
\* acc * b^e by repeated multiplication, given up once acc has left the range
PowAcc(b, e, acc) ==
    IF e = 0 \/ Abs(acc) > MaxAbs THEN acc ELSE PowAcc(b, e - 1, acc * b)

\* b^e for an integer b and e >= 0 (0^0 = 1, as in Python)
IntPow(b, e) ==
    IF e = 0 THEN 1
    ELSE IF b = 0 THEN 0
    ELSE IF b = 1 THEN 1
    ELSE IF b = -1 THEN (IF e % 2 = 0 THEN 1 ELSE -1)
    ELSE PowAcc(b, e, 1)

\* the q-th roots of n among the positive integers
Roots(n, q) == {r \in 1..n : IntPow(r, q) = n}

\* operator.sub
Sub(a, b) ==
    IF ~(IsRational(a) /\ IsRational(b)) THEN Ok(Untracked(a, b))
    ELSE Ok(Rat(a, b, a.n * b.d - b.n * a.d, a.d * b.d))

\* operator.add
Add(a, b) ==
    IF ~(IsRational(a) /\ IsRational(b)) THEN Ok(Untracked(a, b))
    ELSE Ok(Rat(a, b, a.n * b.d + b.n * a.d, a.d * b.d))

\* operator.mul
Mul(a, b) ==
    IF ~(IsRational(a) /\ IsRational(b)) THEN Ok(Untracked(a, b))
    ELSE Ok(Rat(a, b, a.n * b.n, a.d * b.d))

\* operator.truediv: always a float, ZeroDivisionError on a zero divisor
TrueDiv(a, b) ==
    IF IsZero(b) THEN Err("ZeroDivisionError")
    ELSE IF ~(IsRational(a) /\ IsRational(b)) THEN Ok(Untracked(a, b))
    ELSE Ok(FloatV(a.n * b.d, a.d * b.n))

\* a^(p/q) for a rational a > 0 and q >= 2: rational when a has a rational
\* q-th root, "irr" otherwise
RootPow(a, p, q) ==
    IF Roots(a.n, q) = {} \/ Roots(a.d, q) = {} THEN Ok(Irr)
    ELSE LET rn == CHOOSE r \in Roots(a.n, q) : TRUE
             rd == CHOOSE r \in Roots(a.d, q) : TRUE
         IN IF p >= 0 THEN Ok(FloatV(IntPow(rn, p), IntPow(rd, p)))
            ELSE Ok(FloatV(IntPow(rd, -p), IntPow(rn, -p)))

\* operator.pow
Pow(a, b) ==
    IF ~(IsRational(a) /\ IsRational(b)) THEN Ok(Untracked(a, b))
    ELSE IF b.d = 1 THEN
        IF b.n >= 0
        THEN Ok(Rat(a, b, IntPow(a.n, b.n), IntPow(a.d, b.n)))
        ELSE IF a.n = 0 THEN Err("ZeroDivisionError")
             ELSE Ok(FloatV(IntPow(a.d, -b.n), IntPow(a.n, -b.n)))
    ELSE IF a.n = 0 THEN (IF b.n > 0 THEN Ok(FloatV(0, 1)) ELSE Err("ZeroDivisionError"))
    ELSE IF a.n < 0 THEN Ok(Complex)
    ELSE RootPow(a, b.n, b.d)

\* cls.binary_operators[token](a, b)
ApplyBinary(token, a, b) ==
    CASE token = <<"-">> -> Sub(a, b)
      [] token = <<"+">> -> Add(a, b)
      [] token = <<"/">> -> TrueDiv(a, b)
      [] token = <<"*">> -> Mul(a, b)
      [] token = <<"^">> -> Pow(a, b)

\* the unary table with '-' mapped to operator.pos as well
ApplyUnaryOperatorAllPos(token, number) == number

\* Calculator.unary_operators[token](number): operator.neg, operator.pos
ApplyUnaryOperator(token, number) ==
    IF token = <<"-">> THEN [number EXCEPT !.n = -number.n] ELSE number

\* ---------------------------------------------------------------- postfix items
Operand(v) == [tag |-> "num", op |-> <<>>, v |-> v]
OperatorTag(token) == [tag |-> "op", op |-> token, v |-> IntV(0)]

\* isinstance(token, int)
IsInt(item) == item.tag = "num" /\ item.v.k = "int"

\* ---------------------------------------------------------------- evaluator
RECURSIVE EvalLoop(_, _, _)
\* the for loop of compute_postfix_expresion from item i on: the value stack
\* it ends with, or the exception it raises
EvalLoop(postfix, i, stack) ==
    IF i > Len(postfix) THEN [err |-> "", stack |-> stack]
    ELSE LET token == postfix[i] IN
         IF token.tag = "op" /\ token.op \in binary_operators /\ Len(stack) >= 2
         THEN LET b == stack[Len(stack)]
                  a == stack[Len(stack) - 1]
                  r == ApplyBinary(token.op, a, b)
              IN IF r.err # "" THEN [err |-> r.err, stack |-> stack]
                 ELSE EvalLoop(postfix, i + 1, Append(SubSeq(stack, 1, Len(stack) - 2), r.v))
         ELSE IF IsInt(token)
         THEN EvalLoop(postfix, i + 1, Append(stack, token.v))
         ELSE [err |-> "InvalidExpression", stack |-> stack]

\* `if stack[-1] % 1 == 0: stack[-1] = int(stack[-1])`
Normalize(v) == IF IsRational(v) /\ v.d = 1 THEN IntV(v.n) ELSE v

\* compute_postfix_expresion: err is "" and v the value returned, or err is the
\* exception raised; left is the number of values still on the stack at the return
compute_postfix_expresion(postfix) ==
    LET r == EvalLoop(postfix, 1, <<>>) IN
    IF r.err # "" THEN [err |-> r.err, v |-> IntV(0), left |-> 0]
    ELSE IF r.stack = <<>> THEN [err |-> "IndexError", v |-> IntV(0), left |-> 0]
    ELSE IF r.stack[Len(r.stack)].k = "complex" THEN [err |-> "TypeError", v |-> IntV(0), left |-> 0]
    ELSE [err |-> "", v |-> Normalize(r.stack[Len(r.stack)]), left |-> Len(r.stack) - 1]

\* ---------------------------------------------------------------- transformer
\* the chain with the variable branch taken in binary position too
BranchVariableAnywhere(token, flag) ==
    IF flag /\ token \in binary_operators THEN "binary operator"
    ELSE IF token \in unary_operators /\ ~flag THEN "unary operator"
    ELSE IF CharSet(token) \subseteq digits /\ ~flag THEN "number"
    ELSE IF CharSet(token) \subseteq ascii_letters THEN "variable"
    ELSE IF token = LParen /\ ~flag THEN "left parenthesis"
    ELSE IF token = RParen /\ flag THEN "right parenthesis"
    ELSE IF CharSet(token) \cap ascii_letters # {} /\ CharSet(token) \cap digits # {}
         THEN "bad variable"
    ELSE "unknown"

\* the branch of the if/elif chain of the for loop that takes the token
Branch(token, flag) ==
    IF flag /\ token \in binary_operators THEN "binary operator"
    ELSE IF token \in unary_operators /\ ~flag THEN "unary operator"
    ELSE IF CharSet(token) \subseteq digits /\ ~flag THEN "number"
    ELSE IF CharSet(token) \subseteq ascii_letters /\ ~flag THEN "variable"
    ELSE IF token = LParen /\ ~flag THEN "left parenthesis"
    ELSE IF token = RParen /\ flag THEN "right parenthesis"
    ELSE IF CharSet(token) \cap ascii_letters # {} /\ CharSet(token) \cap digits # {}
         THEN "bad variable"
    ELSE "unknown"

\* the condition of the while loop of the binary-operator branch
ShouldPop(token, stack) ==
    /\ stack # <<>>
    /\ stack[Len(stack)] # LParen
    /\ precedence[token] <= precedence[stack[Len(stack)]]

RECURSIVE PopOperators(_, _, _)
\* the while loop of the binary-operator branch
PopOperators(token, stack, postfix) ==
    IF ShouldPop(token, stack)
    THEN PopOperators(token, SubSeq(stack, 1, Len(stack) - 1),
                      Append(postfix, OperatorTag(stack[Len(stack)])))
    ELSE [stack |-> stack, postfix |-> postfix]

RECURSIVE PopToParen(_, _)
\* `while stack and stack[-1] != '(': postfix.append(stack.pop())`
PopToParen(stack, postfix) ==
    IF stack # <<>> /\ stack[Len(stack)] # LParen
    THEN PopToParen(SubSeq(stack, 1, Len(stack) - 1),
                    Append(postfix, OperatorTag(stack[Len(stack)])))
    ELSE [stack |-> stack, postfix |-> postfix]

RECURSIVE ApplyUnary(_, _)
\* `while unary_operators_stack: number = operator_(number)`, last pushed first
ApplyUnary(ustack, number) ==
    IF ustack = <<>> THEN number
    ELSE ApplyUnary(SubSeq(ustack, 1, Len(ustack) - 1),
                    ApplyUnaryOperator(ustack[Len(ustack)], number))

\* ---------------------------------------------------------------- handlers
ClassifiedErrors == {"InvalidExpression", "UnknownVariable", "InvalidIdentifier"}

\* the except clauses of process_expression and process_assignment
Message(m, err) ==
    IF m = "expression"
    THEN CASE err = "InvalidExpression" -> "Invalid expression"
           [] err = "UnknownVariable" -> "Unknown variable"
           [] err = "InvalidIdentifier" -> "Invalid identifier"
    ELSE CASE err \in {"InvalidExpression", "InvalidIdentifier"} -> "Invalid assignment"
           [] err = "UnknownVariable" -> "Unknown variable"

NoValue == IntV(0)

\* an exception raised at `by` (on `token`, when the for loop raises it) while
\* the handler of mode m runs: caught and reported when one of its except
\* clauses names it, else it leaves run()
Raised(m, err, by, token) ==
    IF err \in ClassifiedErrors
    THEN [kind |-> "error", by |-> by, err |-> err, msg |-> Message(m, err), v |-> NoValue,
          token |-> token]
    ELSE [kind |-> "crash", by |-> by, err |-> err, msg |-> "", v |-> NoValue,
          token |-> token]

PcAfter(out) == IF out.kind = "crash" THEN "crashed" ELSE "input"

\* `if unary_operators_stack: raise InvalidExpression` of the '(' branch
PendingUnary(ustack) == ustack # <<>>

\* the ')' branch without its test of the emptied operator stack
NoOpenParenIgnored(stack) == FALSE

\* `if not binary_operators_stack: raise InvalidExpression` of the ')' branch
NoOpenParen(stack) == stack = <<>>

\* `if binary_operators_stack: raise InvalidExpression` after the for loop
ParenLeftOpen(stack) == stack # <<>>

\* one iteration of the for loop of transform_infix_to_postfix on `token`, from
\* the scan state st = [bstack, ustack, flag, postfix]: the scan state after
\* it, and in err the exception it raises ("" when none)
ScanStep(token, st, store) ==
    LET branch == Branch(token, st.flag)
        same == [bstack |-> st.bstack, ustack |-> st.ustack, flag |-> st.flag,
                 postfix |-> st.postfix, err |-> ""]
    IN
    CASE branch = "binary operator" ->
            LET r == PopOperators(token, st.bstack, st.postfix)
            IN [same EXCEPT !.bstack = Append(r.stack, token), !.postfix = r.postfix,
                            !.flag = FALSE]
      [] branch = "unary operator" ->
            [same EXCEPT !.ustack = Append(st.ustack, token)]
      [] branch = "number" ->
            [same EXCEPT !.postfix = Append(st.postfix,
                                            Operand(ApplyUnary(st.ustack, IntV(IntOf(token))))),
                         !.ustack = <<>>, !.flag = TRUE]
      [] branch = "variable" ->
            IF token \notin DOMAIN store
            THEN [same EXCEPT !.err = "UnknownVariable"]
            ELSE [same EXCEPT !.postfix = Append(st.postfix,
                                                 Operand(ApplyUnary(st.ustack, store[token]))),
                              !.ustack = <<>>, !.flag = TRUE]
      [] branch = "left parenthesis" ->
            IF PendingUnary(st.ustack)
            THEN [same EXCEPT !.err = "InvalidExpression"]
            ELSE [same EXCEPT !.bstack = Append(st.bstack, token)]
      [] branch = "right parenthesis" ->
            LET r == PopToParen(st.bstack, st.postfix)
            IN IF NoOpenParen(r.stack)
               THEN [same EXCEPT !.bstack = r.stack, !.postfix = r.postfix,
                                 !.err = "InvalidExpression"]
               ELSE [same EXCEPT !.bstack = SubSeq(r.stack, 1, Len(r.stack) - 1),
                                 !.postfix = r.postfix]
      [] branch = "bad variable" -> [same EXCEPT !.err = "InvalidIdentifier"]
      [] branch = "unknown" -> [same EXCEPT !.err = "InvalidExpression"]

\* `self._variables[identifier] = value`
SetVariable(store, id, value) ==
    [n \in DOMAIN store \cup {id} |-> IF n = id THEN value ELSE store[n]]

\* the assignment made whether or not the evaluation raised
StoreAlways(store, id, r) == SetVariable(store, id, r.v)

\* process_assignment's try/except/else around the evaluation result r
StoreAfter(store, id, r) ==
    IF r.err = "" THEN SetVariable(store, id, r.v) ELSE store

\* ---------------------------------------------------------------- inputs
Tok(c) == <<c>>

\* tokens of the lines of a session
SessionTokens ==
    {Tok("0"), Tok("1"), Tok("2"), Tok("x"), <<"a", "1">>, Tok("/")}

\* tokens of the line of the single-line specification
LineTokens ==
    {Tok("0"), Tok("2"), Tok("x"), Tok("y"), <<"a", "1">>, Tok("$"),
     Tok("-"), Tok("+"), Tok("/"), Tok("*"), Tok("^"), LParen, RParen}

\* left-hand sides of assignment lines: two names, the empty one of `= 5`
\* (which the issubset test lets through) and one that is not alphabetic
Identifiers == {Tok("x"), Tok("y"), <<>>, <<"x", "1">>}

Commands == {"/help", "/variables", "/vars"}

\* stores the single-line specification starts from: the empty one, and the one
\* after `x = 3` and `y = 1 / 2`
LineStores == {<<>>, (Tok("x") :> IntV(3)) @@ (Tok("y") :> FloatV(1, 2))}

\* ---------------------------------------------------------------- actions
Plain(kind, by, msg, v) ==
    [kind |-> kind, by |-> by, err |-> "", msg |-> msg, v |-> v, token |-> <<>>]

scan_vars == <<infix_expression, binary_operators_stack, unary_operators_stack,
               next_operator_is_binary, postfix_expression>>

\* the locals of transform_infix_to_postfix at its entry; they are also what is
\* left of them once the handler has returned or an exception has left it
ResetScan ==
    /\ infix_expression' = <<>>
    /\ binary_operators_stack' = <<>>
    /\ unary_operators_stack' = <<>>
    /\ next_operator_is_binary' = FALSE
    /\ postfix_expression' = <<>>

\* run(): the line is '/exit'
Exit ==
    /\ pc = "input"
    /\ pc' = "exited"
    /\ lines' = lines + 1
    /\ output' = Plain("bye", "run", "Bye!", NoValue)
    /\ UNCHANGED <<mode, identifier, variables, scan_vars>>

\* run(): the line is empty, and nothing is done with it
EmptyLine ==
    /\ pc = "input"
    /\ lines' = lines + 1
    /\ output' = Plain("skipped", "run", "", NoValue)
    /\ UNCHANGED <<pc, mode, identifier, variables, scan_vars>>

\* run() and process_command: the line starts with '/'
ProcessCommand(string) ==
    /\ pc = "input"
    /\ lines' = lines + 1
    /\ output' = Plain("command", "process_command",
                       CASE string = "/help" -> "help"
                         [] string = "/variables" -> "variables"
                         [] OTHER -> "Unknown command",
                       NoValue)
    /\ UNCHANGED <<pc, mode, identifier, variables, scan_vars>>

\* run() and process_expression up to the call of the transformer
ProcessExpression ==
    /\ pc = "input"
    /\ lines' = lines + 1
    /\ pc' = "scan"
    /\ mode' = "expression"
    /\ ResetScan
    /\ UNCHANGED <<identifier, variables, output>>

\* run() and process_assignment up to the call of the transformer
ProcessAssignment(id) ==
    /\ pc = "input"
    /\ lines' = lines + 1
    /\ mode' = "assignment"
    /\ identifier' = id
    /\ ResetScan
    /\ IF CharSet(id) \subseteq ascii_letters
       THEN pc' = "scan" /\ UNCHANGED output
       ELSE /\ output' = Plain("message", "process_assignment", "Invalid identifier", NoValue)
            /\ UNCHANGED pc
    /\ UNCHANGED variables

\* one iteration of the transformer's for loop
ScanToken(token) ==
    /\ pc = "scan"
    /\ LET r == ScanStep(token,
                         [bstack |-> binary_operators_stack, ustack |-> unary_operators_stack,
                          flag |-> next_operator_is_binary, postfix |-> postfix_expression],
                         variables)
       IN IF r.err = ""
          THEN /\ infix_expression' = Append(infix_expression, token)
               /\ binary_operators_stack' = r.bstack
               /\ unary_operators_stack' = r.ustack
               /\ next_operator_is_binary' = r.flag
               /\ postfix_expression' = r.postfix
               /\ UNCHANGED <<pc, output>>
          ELSE /\ ResetScan
               /\ output' = Raised(mode, r.err, "scan", token)
               /\ pc' = PcAfter(output')
    /\ UNCHANGED <<mode, identifier, variables, lines>>

\* the transformer after its for loop
EndScan ==
    /\ pc = "scan"
    /\ LET r == PopToParen(binary_operators_stack, postfix_expression)
       IN IF ParenLeftOpen(r.stack)
          THEN /\ ResetScan
               /\ output' = Raised(mode, "InvalidExpression", "return", <<>>)
               /\ pc' = PcAfter(output')
          ELSE /\ binary_operators_stack' = r.stack
               /\ postfix_expression' = r.postfix
               /\ pc' = "compute"
               /\ UNCHANGED <<output, infix_expression, unary_operators_stack,
                              next_operator_is_binary>>
    /\ UNCHANGED <<mode, identifier, variables, lines>>

\* compute_postfix_expresion on the transformer's result, and what the handler
\* does with its value or its exception
Compute ==
    /\ pc = "compute"
    /\ LET r == compute_postfix_expresion(postfix_expression)
       IN /\ r.err # "range"
          /\ output' = IF r.err # "" THEN Raised(mode, r.err, "compute", <<>>)
                       ELSE IF mode = "expression"
                       THEN Plain("printed", "compute", "", r.v)
                       ELSE Plain("stored", "compute", "", r.v)
          /\ variables' = IF mode = "assignment"
                          THEN StoreAfter(variables, identifier, r)
                          ELSE variables
          /\ pc' = PcAfter(output')
    /\ ResetScan
    /\ UNCHANGED <<mode, identifier, lines>>

\* ---------------------------------------------------------------- specifications
Init ==
    /\ pc = "input"
    /\ mode = "expression"
    /\ identifier = <<>>
    /\ variables = <<>>
    /\ infix_expression = <<>>
    /\ binary_operators_stack = <<>>
    /\ unary_operators_stack = <<>>
    /\ next_operator_is_binary = FALSE
    /\ postfix_expression = <<>>
    /\ output = Plain("none", "run", "", NoValue)
    /\ lines = 0

\* a session of at most MaxLines lines of at most MaxSessionTokens tokens
Next ==
    \/ lines < MaxLines /\ Exit
    \/ lines < MaxLines /\ EmptyLine
    \/ \E string \in Commands : lines < MaxLines /\ ProcessCommand(string)
    \/ lines < MaxLines /\ ProcessExpression
    \/ \E id \in Identifiers : lines < MaxLines /\ ProcessAssignment(id)
    \/ \E token \in SessionTokens :
          Len(infix_expression) < MaxSessionTokens /\ ScanToken(token)
    \/ EndScan
    \/ Compute

Spec == Init /\ [][Next]_vars

\* one expression line of at most MaxTokens tokens, from each store of LineStores
InitLine ==
    /\ pc = "scan"
    /\ mode = "expression"
    /\ identifier = <<>>
    /\ variables \in LineStores
    /\ infix_expression = <<>>
    /\ binary_operators_stack = <<>>
    /\ unary_operators_stack = <<>>
    /\ next_operator_is_binary = FALSE
    /\ postfix_expression = <<>>
    /\ output = Plain("none", "run", "", NoValue)
    /\ lines = 1

NextLine ==
    \/ \E token \in LineTokens : Len(infix_expression) < MaxTokens /\ ScanToken(token)
    \/ EndScan
    \/ Compute

SpecLine == InitLine /\ [][NextLine]_vars

\* postfix sequences the evaluator specification starts from
PostfixItems ==
    {Operand(IntV(1)), Operand(IntV(2)), Operand(FloatV(1, 2)),
     OperatorTag(Tok("-")), OperatorTag(Tok("/"))}

RECURSIVE SeqsUpTo(_, _)
\* the sequences of at most n elements of S
SeqsUpTo(S, n) ==
    IF n = 0 THEN {<<>>}
    ELSE LET shorter == SeqsUpTo(S, n - 1)
         IN shorter \cup {Append(q, x) : q \in shorter, x \in S}

\* compute_postfix_expresion called by process_expression on each postfix
\* sequence of at most MaxPostfix items
InitEval ==
    /\ pc = "compute"
    /\ mode = "expression"
    /\ identifier = <<>>
    /\ variables = <<>>
    /\ infix_expression = <<>>
    /\ binary_operators_stack = <<>>
    /\ unary_operators_stack = <<>>
    /\ next_operator_is_binary = FALSE
    /\ postfix_expression \in SeqsUpTo(PostfixItems, MaxPostfix)
    /\ output = Plain("none", "run", "", NoValue)
    /\ lines = 1

NextEval == Compute

SpecEval == InitEval /\ [][NextEval]_vars

\* ================================================================ claims
\* Token classes and reference notions used to state the claims; they are
\* written from the claims' words, not from the transformer's branches.

IsNumberToken(t) == t # <<>> /\ CharSet(t) \subseteq digits
IsIdentifierToken(t) == t # <<>> /\ CharSet(t) \subseteq ascii_letters
IsOperandToken(t) == IsNumberToken(t) \/ IsIdentifierToken(t)
IsMixedToken(t) == CharSet(t) \cap ascii_letters # {} /\ CharSet(t) \cap digits # {}
IsSignToken(t) == t \in {Tok("-"), Tok("+")}
IsBinaryToken(t) == t \in {Tok("-"), Tok("+"), Tok("/"), Tok("*"), Tok("^")}

LastOf(q) == q[Len(q)]
FrontOf(q) == SubSeq(q, 1, Len(q) - 1)

\* C1: every line other than /exit ends with a value, a store update or one of
\* the classified messages, and the session reads on: no exception leaves the
\* run loop.
C1_NoUnclassifiedFailure ==
    /\ pc # "crashed"
    /\ output.kind # "crash"

RECURSIVE StackDepths(_, _, _)
\* The value stack depth of a reference evaluator that pushes every operand
\* and lets an operator replace two values by one: the depth after the whole
\* sequence, or -1 once an operator meets fewer than two values.
StackDepths(postfix, i, depth) ==
    IF i > Len(postfix) THEN depth
    ELSE IF postfix[i].tag = "num" THEN StackDepths(postfix, i + 1, depth + 1)
    ELSE IF depth < 2 THEN -1
    ELSE StackDepths(postfix, i + 1, depth - 1)

\* C2: the evaluator returns a value only when exactly one value is left on
\* the stack after all items; in every other case (none left, more than one
\* left, an operator with fewer than two values) it fails with
\* InvalidExpression.
C2_ExactlyOneValueOrInvalid ==
    [][pc = "compute" =>
          LET left == StackDepths(postfix_expression, 1, 0)
          IN IF left = 1
             THEN output'.kind \in {"printed", "stored"} \/ output'.err # "InvalidExpression"
             ELSE output'.err = "InvalidExpression"]_vars

\* C3: the evaluator pushes every numeric operand, integral or not: it fails
\* with InvalidExpression only when an operator meets fewer than two values,
\* never because of an operand (such as a variable holding 1 / 2).
C3_EveryOperandPushed ==
    [][pc = "compute" /\ output'.err = "InvalidExpression" /\ output'.by = "compute" =>
          StackDepths(postfix_expression, 1, 0) = -1]_vars

\* ---------------------------------------------------------------- reference evaluator
\* A recursive-descent evaluator of token sequences, by the grammar
\*     sum     ::= product (('+' | '-') product)*
\*     product ::= power (('*' | '/') power)*
\*     power   ::= atom ('^' atom)*
\*     atom    ::= '(' sum ')' | sign* (number | identifier)
\* with every level grouping from left to right.  A result is
\* [ok, v, next]: whether a value exists, the value, and the index of the
\* first token not consumed.
RefFail == [ok |-> FALSE, v |-> NoValue, next |-> 0]
RefOk(v, next) == [ok |-> TRUE, v |-> v, next |-> next]

\* a binary operation of the reference evaluator: no value on a division by
\* zero, outside the model's range, or outside the reals
RefApply(token, a, b, next) ==
    LET r == ApplyBinary(token, a, b)
    IN IF r.err # "" \/ r.v.k = "complex" THEN RefFail ELSE RefOk(r.v, next)

RECURSIVE RefSigned(_, _, _)
RefSigned(tokens, store, i) ==
    IF i > Len(tokens) THEN RefFail
    ELSE IF IsSignToken(tokens[i])
    THEN LET r == RefSigned(tokens, store, i + 1)
         IN IF ~r.ok THEN RefFail
            ELSE IF tokens[i] = Tok("-") THEN RefOk([r.v EXCEPT !.n = -r.v.n], r.next)
            ELSE r
    ELSE IF IsNumberToken(tokens[i]) THEN RefOk(IntV(IntOf(tokens[i])), i + 1)
    ELSE IF IsIdentifierToken(tokens[i]) /\ tokens[i] \in DOMAIN store
    THEN RefOk(store[tokens[i]], i + 1)
    ELSE RefFail

RECURSIVE RefSum(_, _, _)
RECURSIVE RefSumRest(_, _, _, _)
RECURSIVE RefProduct(_, _, _)
RECURSIVE RefProductRest(_, _, _, _)
RECURSIVE RefPower(_, _, _)
RECURSIVE RefPowerRest(_, _, _, _)
RECURSIVE RefAtom(_, _, _)

RefAtom(tokens, store, i) ==
    IF i > Len(tokens) THEN RefFail
    ELSE IF tokens[i] = Tok("(")
    THEN LET r == RefSum(tokens, store, i + 1)
         IN IF r.ok /\ r.next <= Len(tokens) /\ tokens[r.next] = Tok(")")
            THEN RefOk(r.v, r.next + 1)
            ELSE RefFail
    ELSE RefSigned(tokens, store, i)

RefPowerRest(tokens, store, acc, i) ==
    IF i <= Len(tokens) /\ tokens[i] = Tok("^")
    THEN LET b == RefAtom(tokens, store, i + 1)
             r == RefApply(tokens[i], acc, b.v, b.next)
         IN IF b.ok /\ r.ok THEN RefPowerRest(tokens, store, r.v, r.next) ELSE RefFail
    ELSE RefOk(acc, i)

RefPower(tokens, store, i) ==
    LET a == RefAtom(tokens, store, i)
    IN IF a.ok THEN RefPowerRest(tokens, store, a.v, a.next) ELSE RefFail

RefProductRest(tokens, store, acc, i) ==
    IF i <= Len(tokens) /\ tokens[i] \in {Tok("*"), Tok("/")}
    THEN LET b == RefPower(tokens, store, i + 1)
             r == RefApply(tokens[i], acc, b.v, b.next)
         IN IF b.ok /\ r.ok THEN RefProductRest(tokens, store, r.v, r.next) ELSE RefFail
    ELSE RefOk(acc, i)

RefProduct(tokens, store, i) ==
    LET a == RefPower(tokens, store, i)
    IN IF a.ok THEN RefProductRest(tokens, store, a.v, a.next) ELSE RefFail

RefSumRest(tokens, store, acc, i) ==
    IF i <= Len(tokens) /\ tokens[i] \in {Tok("+"), Tok("-")}
    THEN LET b == RefProduct(tokens, store, i + 1)
             r == RefApply(tokens[i], acc, b.v, b.next)
         IN IF b.ok /\ r.ok THEN RefSumRest(tokens, store, r.v, r.next) ELSE RefFail
    ELSE RefOk(acc, i)

RefSum(tokens, store, i) ==
    LET a == RefProduct(tokens, store, i)
    IN IF a.ok THEN RefSumRest(tokens, store, a.v, a.next) ELSE RefFail

\* the value of the whole token sequence, whole values as ints
RefValue(tokens, store) ==
    LET r == RefSum(tokens, store, 1)
    IN IF r.ok /\ r.next = Len(tokens) + 1
       THEN RefOk(IF r.v.k = "float" /\ r.v.d = 1 THEN IntV(r.v.n) ELSE r.v, r.next)
       ELSE RefFail

\* C4: assignment round-trip: when the right-hand side e of `x = e` has the
\* value v, the store maps x to v after the line, and a later expression line
\* computes with the stored values (so it prints the reference value under
\* the current store).
C4_AssignmentRoundTrip ==
    [][pc = "compute" /\ RefValue(infix_expression, variables).ok =>
          LET v == RefValue(infix_expression, variables).v
          IN IF mode = "assignment"
             THEN /\ output'.kind = "stored"
                  /\ identifier \in DOMAIN variables'
                  /\ variables'[identifier] = v
             ELSE /\ output'.kind = "printed"
                  /\ output'.v = v]_vars

\* C5: for every well-formed expression the printed result is the one of the
\* reference evaluator: `^` above `*` `/` above `+` `-`, equal precedence from
\* left to right (also for `^`), parentheses overriding both, a OP b in
\* operand order.
C5_PrecedenceAndGrouping ==
    [][pc = "compute" /\ RefValue(infix_expression, variables).ok =>
          /\ output'.kind = "printed"
          /\ output'.v = RefValue(infix_expression, variables).v]_vars

\* The printed result is the reference evaluator's for every expression whose
\* variables hold ints (the part of C5 that the operand test of the evaluator
\* leaves intact), and nothing is printed that the reference evaluator does
\* not give.
PrecedenceOnIntOperands ==
    [][pc = "compute" =>
          LET ref == RefValue(infix_expression, variables)
              ints == \A i \in 1..Len(infix_expression) :
                          infix_expression[i] \in DOMAIN variables
                              => variables[infix_expression[i]].k = "int"
          IN /\ ref.ok /\ ints => output'.kind = "printed" /\ output'.v = ref.v
             /\ output'.kind = "printed" => ref.ok /\ output'.v = ref.v]_vars

\* ---------------------------------------------------------------- token sequences
RECURSIVE TrailingSigns(_)
\* the number of sign tokens the sequence ends with
TrailingSigns(tokens) ==
    IF tokens = <<>> \/ ~IsSignToken(LastOf(tokens)) THEN 0
    ELSE 1 + TrailingSigns(FrontOf(tokens))

\* whether the sequence ends with an operand or a ')': the next operator, if
\* any, is a binary one
EndsOperand(tokens) ==
    tokens # <<>> /\ (IsOperandToken(LastOf(tokens)) \/ LastOf(tokens) = Tok(")"))

\* the sign tokens in prefix position the sequence ends with: its trailing
\* signs, but for a first one that follows an operand or a ')' and is binary
PrefixSigns(tokens) ==
    LET k == TrailingSigns(tokens)
        first == Len(tokens) - k + 1
    IN IF k = 0 THEN <<>>
       ELSE IF EndsOperand(SubSeq(tokens, 1, first - 1))
       THEN SubSeq(tokens, first + 1, Len(tokens))
       ELSE SubSeq(tokens, first, Len(tokens))

MinusCount(tokens) == Cardinality({i \in 1..Len(tokens) : tokens[i] = Tok("-")})

\* '(' minus ')' tokens
Depth(tokens) ==
    Cardinality({i \in 1..Len(tokens) : tokens[i] = Tok("(")})
        - Cardinality({i \in 1..Len(tokens) : tokens[i] = Tok(")")})

Balanced(tokens) ==
    /\ Depth(tokens) = 0
    /\ \A i \in 1..Len(tokens) : Depth(SubSeq(tokens, 1, i)) >= 0

\* C6: an operand preceded in prefix position by n >= 0 signs is emitted as
\* its value times (-1)^(number of '-' among them), and no unary operator is
\* pending afterwards.
C6_UnaryFolding ==
    pc = "scan" /\ infix_expression # <<>> /\ IsOperandToken(LastOf(infix_expression)) =>
        LET token == LastOf(infix_expression)
            signs == PrefixSigns(FrontOf(infix_expression))
            value == IF IsNumberToken(token) THEN IntV(IntOf(token)) ELSE variables[token]
            sign == IF MinusCount(signs) % 2 = 0 THEN 1 ELSE -1
        IN /\ postfix_expression # <<>>
           /\ LastOf(postfix_expression).tag = "num"
           /\ LastOf(postfix_expression).v = [value EXCEPT !.n = sign * value.n]
           /\ unary_operators_stack = <<>>

\* an operand has just been emitted after '-' and '+' in prefix position
C6_Witness ==
    /\ pc = "scan"
    /\ Len(infix_expression) >= 4
    /\ IsOperandToken(LastOf(infix_expression))
    /\ Len(PrefixSigns(FrontOf(infix_expression))) >= 2
    /\ MinusCount(PrefixSigns(FrontOf(infix_expression))) = 1
    /\ LastOf(postfix_expression).v.n < 0

\* C7: the transformer returns a postfix sequence only for balanced
\* parentheses, with no '(' left on the operator stack; a ')' without an
\* earlier '(' and a '(' never closed make it fail with InvalidExpression.
C7_ParenthesisBalancing ==
    [][pc = "scan" =>
          /\ pc' = "compute" =>
                /\ Balanced(infix_expression)
                /\ \A i \in 1..Len(binary_operators_stack') :
                      binary_operators_stack'[i] # Tok("(")
          /\ pc' # "scan" /\ output'.by = "scan" /\ output'.token = Tok(")")
                /\ Depth(infix_expression) = 0 =>
                output'.err = "InvalidExpression"
          /\ pc' # "scan" /\ output'.by # "scan" /\ Depth(infix_expression) > 0 =>
                output'.by = "return" /\ output'.err = "InvalidExpression"]_vars

\* the transformer has returned for a line with nested parentheses
C7_Witness ==
    /\ pc = "compute"
    /\ Cardinality({i \in 1..Len(infix_expression) : infix_expression[i] = Tok("(")}) = 2
    /\ binary_operators_stack = <<>>

\* C8: the store changes only in a successful assignment, which sets exactly
\* the assigned (alphabetic) identifier; expression lines, commands and failed
\* assignments leave it unchanged; a name in the store is never removed.
C8_StoreFrame ==
    [][/\ DOMAIN variables \subseteq DOMAIN variables'
       /\ variables' # variables =>
             /\ pc = "compute" /\ mode = "assignment"
             /\ output'.kind = "stored"
             /\ CharSet(identifier) \subseteq ascii_letters
             /\ DOMAIN variables' = DOMAIN variables \cup {identifier}
             /\ variables'[identifier] = output'.v
             /\ \A n \in DOMAIN variables \ {identifier} : variables'[n] = variables[n]
       /\ output'.kind \in {"error", "crash", "message", "command", "printed", "skipped", "bye"}
             => variables' = variables]_vars

\* an assignment has failed after another one had set a variable
C8_Witness ==
    /\ DOMAIN variables # {}
    /\ mode = "assignment"
    /\ output.kind = "error"
    /\ output.msg = "Invalid assignment"

\* whether the transformer can take token t after the tokens consumed so far
Acceptable(t, flag, tokens, store) ==
    IF flag
    THEN IsBinaryToken(t) \/ (t = Tok(")") /\ Depth(tokens) > 0)
    ELSE \/ IsSignToken(t)
         \/ IsNumberToken(t)
         \/ IsIdentifierToken(t) /\ t \in DOMAIN store
         \/ t = Tok("(") /\ PrefixSigns(tokens) = <<>>

\* the error kind of a token the transformer cannot take
ErrorKind(t, flag, store) ==
    IF IsMixedToken(t) THEN "InvalidIdentifier"
    ELSE IF IsIdentifierToken(t) /\ ~flag /\ t \notin DOMAIN store THEN "UnknownVariable"
    ELSE "InvalidExpression"

\* C9: the transformer fails at the first token it cannot accept, with a kind
\* fixed by the token and the scan state: UnknownVariable for an alphabetic
\* token in operand position that the store lacks, InvalidIdentifier for a
\* token mixing letters and digits whatever expectBinary is, InvalidExpression
\* for every other one; open parentheses do not change the kind.
C9_FirstBadTokenKind ==
    [][pc = "scan" =>
          /\ pc' = "scan" /\ infix_expression' # infix_expression =>
                Acceptable(LastOf(infix_expression'), next_operator_is_binary,
                           infix_expression, variables)
          /\ pc' # "scan" /\ output'.by = "scan" =>
                /\ ~Acceptable(output'.token, next_operator_is_binary,
                               infix_expression, variables)
                /\ output'.kind = "error"
                /\ output'.err = ErrorKind(output'.token, next_operator_is_binary, variables)]_vars

\* an unknown variable has ended the scan of a line
C9_Witness ==
    /\ pc = "input"
    /\ output.by = "scan"
    /\ output.err = "UnknownVariable"
    /\ output.token \notin DOMAIN variables

RECURSIVE WfExpression(_, _)
RECURSIVE WfRest(_, _)
RECURSIVE WfTerm(_, _)
\* Recognizers of the well-formed infix expressions: the index after the
\* longest expression (term) that starts at token i, 0 when there is none.
\*     expression ::= term (binary-operator term)*
\*     term       ::= '(' expression ')' | sign* (number | identifier)
WfTerm(tokens, i) ==
    IF i > Len(tokens) THEN 0
    ELSE IF tokens[i] = Tok("(")
    THEN LET k == WfExpression(tokens, i + 1)
         IN IF k # 0 /\ k <= Len(tokens) /\ tokens[k] = Tok(")") THEN k + 1 ELSE 0
    ELSE IF IsSignToken(tokens[i]) /\ i < Len(tokens) /\ tokens[i + 1] # Tok("(")
    THEN WfTerm(tokens, i + 1)
    ELSE IF IsOperandToken(tokens[i]) THEN i + 1
    ELSE 0

WfRest(tokens, i) ==
    IF i <= Len(tokens) /\ IsBinaryToken(tokens[i])
    THEN LET k == WfTerm(tokens, i + 1)
         IN IF k = 0 THEN 0 ELSE WfRest(tokens, k)
    ELSE i

WfExpression(tokens, i) ==
    LET k == WfTerm(tokens, i)
    IN IF k = 0 THEN 0 ELSE WfRest(tokens, k)

WellFormed(tokens) == WfExpression(tokens, 1) = Len(tokens) + 1

\* what the claim names as never yielding a value, read at the end of a token
\* sequence: two operands in a row, a sign in prefix position directly before
\* '(', and a leading or doubled '*', '/' or '^'
EndsMalformed(tokens) ==
    LET t == LastOf(tokens)
        before == FrontOf(tokens)
    IN \/ IsOperandToken(t) /\ before # <<>> /\ IsOperandToken(LastOf(before))
       \/ t = Tok("(") /\ PrefixSigns(before) # <<>>
       \/ t \in {Tok("*"), Tok("/"), Tok("^")}
             /\ (before = <<>> \/ IsBinaryToken(LastOf(before)))

\* C10: a value is returned only for a well-formed infix expression; two
\* operands in a row, a sign directly before '(', and a leading, trailing or
\* doubled '*', '/' or '^' fail with InvalidExpression; during the scan
\* expectBinary is true exactly when the last consumed token was an operand
\* or ')'.
C10_ValueOnlyIfWellFormed ==
    /\ [](pc = "scan" => (next_operator_is_binary <=> EndsOperand(infix_expression)))
    /\ [][/\ pc = "compute" /\ output'.kind \in {"printed", "stored"} =>
                WellFormed(infix_expression)
          /\ pc = "compute" /\ infix_expression # <<>>
                /\ LastOf(infix_expression) \in {Tok("*"), Tok("/"), Tok("^")} =>
                output'.kind = "error" /\ output'.err = "InvalidExpression"
          /\ pc = "scan" /\ pc' = "scan" /\ infix_expression' # infix_expression =>
                ~EndsMalformed(infix_expression')
          /\ pc = "scan" /\ pc' # "scan" /\ output'.by = "scan"
                /\ EndsMalformed(Append(infix_expression, output'.token)) =>
                output'.kind = "error" /\ output'.err = "InvalidExpression"]_vars

\* C10 but for the error kind of a trailing '*', '/' or '^': such a line never
\* yields a value, and all the rest of C10 holds.
WellFormedButTrailingKind ==
    /\ [](pc = "scan" => (next_operator_is_binary <=> EndsOperand(infix_expression)))
    /\ [][/\ pc = "compute" /\ output'.kind \in {"printed", "stored"} =>
                WellFormed(infix_expression)
          /\ pc = "compute" /\ infix_expression # <<>>
                /\ LastOf(infix_expression) \in {Tok("*"), Tok("/"), Tok("^")} =>
                output'.kind \in {"error", "crash"}
          /\ pc = "scan" /\ pc' = "scan" /\ infix_expression' # infix_expression =>
                ~EndsMalformed(infix_expression')
          /\ pc = "scan" /\ pc' # "scan" /\ output'.by = "scan"
                /\ EndsMalformed(Append(infix_expression, output'.token)) =>
                output'.kind = "error" /\ output'.err = "InvalidExpression"]_vars

====
